---- MODULE Spec2Model ----
(***************************************************************************)
(* Leaderboard cyclopeptide sequencing from an integer mass spectrum       *)
(* (antibiotics_sequence_from_mass_spectrumUntitled-1.ipynb).              *)
(*                                                                         *)
(* Python lists are sequences, a peptide (a Python string) is a sequence   *)
(* of one-letter symbols, the mass table (a dict of symbol -> decimal      *)
(* string) is a sequence of [key, value] entries in insertion order, and a *)
(* decimal string is the sequence of its digits.                           *)
(*                                                                         *)
(* The loops and the list helpers are recursive functions (f[x \in S]), so *)
(* that each argument is evaluated once, where it is passed.               *)
(***************************************************************************)
EXTENDS Integers, Sequences, FiniteSets, TLC

VARIABLES
    mass_table,            \* the residue table of the call
    spectrum,              \* the target spectrum (the caller's list)
    n,                     \* the retention count
    leader_board,          \* leaderboard_peptide_sequencing / trim: the candidates
    leader_peptide,        \* leaderboard_peptide_sequencing: best candidate so far
    leader_peptide_score,  \* ... and its cyclic score
    peptides_to_remove,    \* candidates of this round found heavier than max(spectrum)
    idx,                   \* position of the for loop over leader_board (0-based)
    pc,                    \* position in the function being run
    result,                \* the value returned (or the error raised) by the call
    peptide,               \* argument of cyclic_spectrum / cyclopeptide_scoring
    cyclic,                \* argument of cyclopeptide_scoring
    source,                \* input bookkeeping: how the target spectrum was made
    examined,              \* history: the candidates scored cyclically, in order
    round,                 \* history: number of expansions done
    discarded              \* history: some call of trim dropped a candidate

vars == << mass_table, spectrum, n, leader_board, leader_peptide,
           leader_peptide_score, peptides_to_remove, idx, pc, result,
           peptide, cyclic, source, examined, round, discarded >>

(***************************************************************************)
(* Bounds of the inputs.                                                   *)
(***************************************************************************)
MaxPepLen == 3      \* longest peptide a target spectrum is generated from
CycPepLen == 4      \* longest peptide handed to cyclic_spectrum alone
ScorePepLen == 2    \* longest peptide handed to cyclopeptide_scoring alone
MaxSpecLen == 3     \* longest arbitrary target spectrum
MaxSpecVal == 3     \* largest mass in an arbitrary target spectrum
MaxBoard == 3       \* longest leaderboard handed to trim alone
MaxN == 1           \* largest small retention count
NoTrimN == 1000     \* the retention count of the notebook's own run

Symbols == {"A", "B"}

\* Decimal strings of the one-digit masses in the tables.
MassStrings == {<<1>>, <<2>>, <<3>>}

SeqsUpTo(S, k) == UNION {[1..m -> S] : m \in 0..k}

\* the values of the Python objects: lists of integers, peptides, lists of
\* peptides
IntList == Seq(Int)
Peptide == Seq(Symbols)
PeptideList == Seq(Seq(Symbols))

Peptides(k) == SeqsUpTo(Symbols, k)

\* Two-symbol tables with positive, pairwise distinct masses: the first key
\* inserted is the lighter or the heavier one (a table with the keys inserted
\* the other way round is one of these with the symbols renamed), and one
\* table has two-digit masses.
ResidueTables ==
    {<<[key |-> "A", value |-> x], [key |-> "B", value |-> y]>> :
        <<x, y>> \in {t \in MassStrings \X MassStrings : t[1] # t[2]}}
     \cup {<<[key |-> "A", value |-> <<1, 0>>], [key |-> "B", value |-> <<1, 1>>]>>}

(***************************************************************************)
(* Python built-ins.                                                       *)
(***************************************************************************)
\* int(s) for a decimal string s
RECURSIVE ParseInt(_)
ParseInt(s) ==
    IF s = <<>> THEN 0
    ELSE 10 * ParseInt(SubSeq(s, 1, Len(s) - 1)) + s[Len(s)]

\* list(mass_table.keys())
Keys(table) == [i \in 1..Len(table) |-> table[i].key]

\* mass_table[symbol]
Lookup(table, symbol) ==
    table[CHOOSE i \in 1..Len(table) : table[i].key = symbol].value

\* x in list
Contains(list, x) == \E i \in 1..Len(list) : list[i] = x

\* list.count(x)
Count(list, x) == Cardinality({i \in 1..Len(list) : list[i] = x})

\* list.remove(x): the first occurrence goes
RemoveFirst(list, x) ==
    LET i == CHOOSE k \in 1..Len(list) :
                 list[k] = x /\ \A m \in 1..(k - 1) : list[m] # x
    IN SubSeq(list, 1, i - 1) \o SubSeq(list, i + 1, Len(list))

InsertSorted[list \in IntList, x \in Int] ==
    IF list = <<>> THEN <<x>>
    ELSE IF x < Head(list) THEN <<x>> \o list
    ELSE <<Head(list)>> \o InsertSorted[Tail(list), x]

\* sorted(list)
Sorted[list \in IntList] ==
    IF list = <<>> THEN <<>>
    ELSE InsertSorted[Sorted[SubSeq(list, 1, Len(list) - 1)], list[Len(list)]]

\* the list after list.sort(reverse = True), given sorted(list)
Reverse[list \in IntList] == [i \in 1..Len(list) |-> list[Len(list) + 1 - i]]

\* max(list) of a non-empty list
Max(list) == CHOOSE x \in {list[i] : i \in 1..Len(list)} :
                 \A i \in 1..Len(list) : list[i] <= x

\* list[k] with Python's negative indices; raised is TRUE for an IndexError
PyIndex[list \in IntList, k \in Int] ==
    LET j == IF k < 0 THEN k + Len(list) ELSE k
    IN IF j < 0 \/ j >= Len(list)
       THEN [raised |-> TRUE, value |-> 0]
       ELSE [raised |-> FALSE, value |-> list[j + 1]]

\* list(dict.fromkeys(list)): the first occurrence of each key, in order
\* the keys so far, with one more key of the list
WithKey[keys \in PeptideList, key \in Peptide] ==
    IF Contains(keys, key) THEN keys ELSE Append(keys, key)

FromKeys[list \in PeptideList] ==
    IF list = <<>> THEN <<>>
    ELSE WithKey[FromKeys[SubSeq(list, 1, Len(list) - 1)], list[Len(list)]]

(***************************************************************************)
(* linear_spectrum, cyclic_spectrum                                        *)
(***************************************************************************)
\* the cumulative masses: prefix_mass[i+1] = prefix_mass[i] + int(mass_table[peptide[i]])
\* prefix_mass.append(prefix_mass[i] + int(mass_table[symbol])), i being the
\* last position of prefix_mass
WithNextPrefix[prefix_mass \in IntList, mass \in Int] ==
    Append(prefix_mass, prefix_mass[Len(prefix_mass)] + mass)

PrefixMass[pep \in Peptide, table \in ResidueTables] ==
    IF pep = <<>> THEN <<0>>
    ELSE WithNextPrefix[PrefixMass[SubSeq(pep, 1, Len(pep) - 1), table],
                        ParseInt(Lookup(table, pep[Len(pep)]))]

\* function to get the mass of a peptide
peptide_mass[pep \in Peptide, table \in ResidueTables] ==
    IF pep = <<>> THEN 0
    ELSE peptide_mass[SubSeq(pep, 1, Len(pep) - 1), table]
         + ParseInt(Lookup(table, pep[Len(pep)]))

\* the two nested loops of linear_spectrum from (i, j) on, 0-based as in the code
LinearLoop[pm \in IntList, len \in Nat, i \in Nat, j \in Nat] ==
    IF i >= len THEN <<>>
    ELSE IF j > len THEN LinearLoop[pm, len, i + 1, i + 2]
    ELSE <<pm[j + 1] - pm[i + 1]>> \o LinearLoop[pm, len, i, j + 1]

linear_spectrum[pep \in Peptide, table \in ResidueTables] ==
    Sorted[<<0>> \o LinearLoop[PrefixMass[pep, table], Len(pep), 0, 1]]

\* the condition under which the complementary (wrap-around) mass is added
WrapsAroundNoUpper(i, j, len) == i > 0

WrapsAround(i, j, len) == i > 0 /\ j < len

\* the two nested loops of cyclic_spectrum from (i, j) on
CyclicLoop[pm \in IntList, total \in Int, len \in Nat, i \in Nat, j \in Nat] ==
    IF i >= len THEN <<>>
    ELSE IF j > len THEN CyclicLoop[pm, total, len, i + 1, i + 2]
    ELSE <<pm[j + 1] - pm[i + 1]>>
         \o (IF WrapsAround(i, j, len)
             THEN <<total - (pm[j + 1] - pm[i + 1])>> ELSE <<>>)
         \o CyclicLoop[pm, total, len, i, j + 1]

cyclic_spectrum[pep \in Peptide, table \in ResidueTables] ==
    Sorted[<<0>> \o CyclicLoop[PrefixMass[pep, table], peptide_mass[pep, table],
                               Len(pep), 0, 1]]

(***************************************************************************)
(* Calls of cyclic_spectrum alone.                                         *)
(***************************************************************************)
Idle ==
    /\ n = 0 /\ leader_board = <<>> /\ leader_peptide = <<>>
    /\ leader_peptide_score = 0 /\ peptides_to_remove = <<>> /\ idx = 0
    /\ source = [kind |-> "none"] /\ examined = <<>> /\ round = 0
    /\ discarded = FALSE /\ result = <<>>

InitCyclic ==
    /\ Idle
    /\ mass_table \in ResidueTables
    /\ peptide \in Peptides(CycPepLen) \ {<<>>}
    /\ spectrum = <<>>
    /\ cyclic = TRUE
    /\ pc = "call"

CallCyclicSpectrum ==
    /\ pc = "call"
    /\ result' = cyclic_spectrum[peptide, mass_table]
    /\ pc' = "returned"
    /\ UNCHANGED << mass_table, spectrum, n, leader_board, leader_peptide,
                    leader_peptide_score, peptides_to_remove, idx, peptide,
                    cyclic, source, examined, round, discarded >>

SpecCyclic == InitCyclic /\ [][CallCyclicSpectrum]_vars

(***************************************************************************)
(* cyclopeptide_scoring                                                    *)
(***************************************************************************)
\* spectrum_copy after a weight found in it was counted, without the removal
AfterMatchKept(spectrum_copy, weight) == spectrum_copy

\* spectrum_copy after a weight found in it was counted: spectrum_copy.remove(weight)
AfterMatch(spectrum_copy, weight) == RemoveFirst(spectrum_copy, weight)

\* the loop over spectrum_to_compare
ScoreLoop[to_compare \in IntList, spectrum_copy \in IntList, score \in Nat] ==
    IF to_compare = <<>> THEN score
    ELSE IF Contains(spectrum_copy, Head(to_compare))
    THEN ScoreLoop[Tail(to_compare), AfterMatch(spectrum_copy, Head(to_compare)),
                   score + 1]
    ELSE ScoreLoop[Tail(to_compare), spectrum_copy, score]

\* the call as its caller sees it: the score returned, and the caller's
\* spectrum list afterwards (the loop works on spectrum.copy(), a fresh list)
ScoringCall[pep \in Peptide, spec \in IntList, cyc \in BOOLEAN, table \in ResidueTables] ==
    LET spectrum_to_compare ==
            IF cyc = TRUE THEN cyclic_spectrum[pep, table]
            ELSE linear_spectrum[pep, table]
        spectrum_copy == spec
    IN [score |-> ScoreLoop[spectrum_to_compare, spectrum_copy, 0],
        spectrum |-> spec]

cyclopeptide_scoring(pep, spec, cyc, table) ==
    ScoringCall[pep, spec, cyc, table].score

(***************************************************************************)
(* Calls of cyclopeptide_scoring alone.                                    *)
(***************************************************************************)
InitScoring ==
    /\ n = 0 /\ leader_board = <<>> /\ leader_peptide = <<>>
    /\ leader_peptide_score = 0 /\ peptides_to_remove = <<>> /\ idx = 0
    /\ examined = <<>> /\ round = 0 /\ discarded = FALSE /\ result = <<>>
    /\ mass_table \in ResidueTables
    /\ peptide \in Peptides(ScorePepLen)
    /\ spectrum \in SeqsUpTo(0..MaxSpecVal, MaxSpecLen)
    /\ cyclic \in BOOLEAN
    /\ source = [kind |-> "scoring", target |-> spectrum]
    /\ pc = "call"

CallScoring ==
    /\ pc = "call"
    /\ LET call == ScoringCall[peptide, spectrum, cyclic, mass_table]
       IN /\ result' = call.score
          /\ spectrum' = call.spectrum
    /\ pc' = "returned"
    /\ UNCHANGED << mass_table, n, leader_board, leader_peptide,
                    leader_peptide_score, peptides_to_remove, idx, peptide,
                    cyclic, source, examined, round, discarded >>

SpecScoring == InitScoring /\ [][CallScoring]_vars

(***************************************************************************)
(* trim                                                                    *)
(***************************************************************************)
\* the test that keeps a candidate, with > for >=
ReachesMinimumStrict(value, minimum_score) == value > minimum_score

\* the test that keeps a candidate: value >= minimum_score
ReachesMinimum(value, minimum_score) == value >= minimum_score

\* the loop over linear_scores.items() from position i on (1-based)
KeepLoop[keys \in PeptideList, values \in IntList, minimum_score \in Int, i \in Nat] ==
    IF i > Len(keys) THEN <<>>
    ELSE (IF ReachesMinimum(values[i], minimum_score) THEN <<keys[i]>> ELSE <<>>)
         \o KeepLoop[keys, values, minimum_score, i + 1]

\* the linear score of every key of linear_scores, in the order of the keys
LinearScores[keys \in PeptideList, spec \in IntList, table \in ResidueTables] ==
    [i \in 1..Len(keys) |-> ScoringCall[keys[i], spec, FALSE, table].score]

\* trim(leader_board, spectrum, n, mass_table): the list returned, or
\* raised = TRUE for the IndexError of scores[n-1]
trim(board, spec, k, table) ==
    IF Len(board) < k
    THEN [raised |-> FALSE, value |-> board]
    ELSE LET keys == FromKeys[board]
             values == LinearScores[keys, spec, table]
             scores == Reverse[Sorted[values]]
             minimum_score == PyIndex[scores, k - 1]
         IN IF minimum_score.raised
            THEN [raised |-> TRUE, value |-> <<>>]
            ELSE [raised |-> FALSE,
                  value |-> KeepLoop[keys, values, minimum_score.value, 1]]

(***************************************************************************)
(* Calls of trim alone.                                                    *)
(***************************************************************************)
\* the candidates the leaderboards handed to trim are made of
TrimPool == Peptides(2) \ {<<>>}

\* leaderboards of distinct candidates, as expansion makes them
Boards(k) == {b \in SeqsUpTo(TrimPool, k) :
                 \A i, j \in 1..Len(b) : i # j => b[i] # b[j]}

InitTrim ==
    /\ leader_peptide = <<>> /\ leader_peptide_score = 0
    /\ peptides_to_remove = <<>> /\ idx = 0 /\ peptide = <<>> /\ cyclic = FALSE
    /\ examined = <<>> /\ round = 0 /\ discarded = FALSE /\ result = <<>>
    /\ mass_table \in ResidueTables
    /\ \E p \in TrimPool : spectrum = cyclic_spectrum[p, mass_table]
    /\ n \in 0..(MaxBoard + 1)
    /\ leader_board \in Boards(MaxBoard)
    /\ source = [kind |-> "trim"]
    /\ pc = "call"

CallTrim ==
    /\ pc = "call"
    /\ result' = trim(leader_board, spectrum, n, mass_table)
    /\ pc' = "returned"
    /\ UNCHANGED << mass_table, spectrum, n, leader_board, leader_peptide,
                    leader_peptide_score, peptides_to_remove, idx, peptide,
                    cyclic, source, examined, round, discarded >>

SpecTrim == InitTrim /\ [][CallTrim]_vars

(***************************************************************************)
(* leaderboard_peptide_sequencing                                          *)
(***************************************************************************)
\* the expansion with the residue left out: [ele for aa in ... for ele in ...]
ExpandedWithoutResidue(board, amino_acids) ==
    [k \in 1..(Len(amino_acids) * Len(board)) |-> board[((k - 1) % Len(board)) + 1]]

\* [ele + aa for aa in amino_acids for ele in leader_board]
Expanded(board, amino_acids) ==
    [k \in 1..(Len(amino_acids) * Len(board)) |->
        Append(board[((k - 1) % Len(board)) + 1],
               amino_acids[((k - 1) \div Len(board)) + 1])]

\* the leader test with the comparison the other way round
IsNewLeaderInverted(score, best) == score < best

\* the leader test letting a tie win
IsNewLeaderOrTie(score, best) == score >= best

\* if score > leader_peptide_score
IsNewLeader(score, best) == score > best

\* the removal test with the comparison the other way round
IsTooHeavyInverted(mass, parent_mass) == mass < parent_mass

\* elif mass > max(spectrum)
IsTooHeavy(mass, parent_mass) == mass > parent_mass

\* for i in range(len(peptides_to_remove)): leader_board.remove(peptides_to_remove[i])
RemoveAll[board \in PeptideList, to_remove \in PeptideList] ==
    IF to_remove = <<>> THEN board
    ELSE RemoveAll[RemoveFirst(board, Head(to_remove)), Tail(to_remove)]

\* the body of: for peptide in leader_board, for one candidate; scored tells
\* whether the candidate was scored cyclically
ForBody(candidate, leader, best, to_remove, spec, table) ==
    LET mass == peptide_mass[candidate, table]
        score == cyclopeptide_scoring(candidate, spec, TRUE, table)
    IN IF mass = Max(spec)
       THEN IF IsNewLeader(score, best)
            THEN [leader_peptide |-> candidate, leader_peptide_score |-> score,
                  peptides_to_remove |-> to_remove, scored |-> TRUE]
            ELSE [leader_peptide |-> leader, leader_peptide_score |-> best,
                  peptides_to_remove |-> to_remove, scored |-> TRUE]
       ELSE IF IsTooHeavy(mass, Max(spec))
            THEN [leader_peptide |-> leader, leader_peptide_score |-> best,
                  peptides_to_remove |-> Append(to_remove, candidate),
                  scored |-> FALSE]
            ELSE [leader_peptide |-> leader, leader_peptide_score |-> best,
                  peptides_to_remove |-> to_remove, scored |-> FALSE]

\* the whole for loop over leader_board from position i on (1-based)
RECURSIVE ForLoop(_, _, _, _, _, _, _)
ForLoop(board, i, leader, best, to_remove, spec, table) ==
    IF i > Len(board)
    THEN [leader_peptide |-> leader, leader_peptide_score |-> best,
          peptides_to_remove |-> to_remove]
    ELSE LET after == ForBody(board[i], leader, best, to_remove, spec, table)
         IN ForLoop(board, i + 1, after.leader_peptide, after.leader_peptide_score,
                    after.peptides_to_remove, spec, table)

\* the while loop from its test on; dropped tells whether a call of trim
\* has returned fewer candidates than it was given
RECURSIVE WhileLoop(_, _, _, _, _, _, _)
WhileLoop(board, leader, best, dropped, spec, k, table) ==
    IF board = <<>>
    THEN [leader_peptide |-> leader, discarded |-> dropped]
    ELSE LET expanded == Expanded(board, Keys(table))
             after == ForLoop(expanded, 1, leader, best, <<>>, spec, table)
             kept == RemoveAll[expanded, after.peptides_to_remove]
             trimmed == trim(kept, spec, k, table)
         IN IF Len(kept) > 0
            THEN WhileLoop(trimmed.value, after.leader_peptide,
                           after.leader_peptide_score,
                           dropped \/ Len(trimmed.value) < Len(kept),
                           spec, k, table)
            ELSE [leader_peptide |-> after.leader_peptide, discarded |-> dropped]

\* the whole call, start to return
leaderboard_peptide_sequencing(spec, k, table) ==
    WhileLoop(<< <<>> >>, <<>>, 0, FALSE, spec, k, table)

SequencerStart ==
    /\ leader_board = << <<>> >>
    /\ leader_peptide = <<>>
    /\ leader_peptide_score = 0
    /\ peptides_to_remove = <<>> /\ idx = 0
    /\ peptide = <<>> /\ cyclic = TRUE /\ result = <<>>
    /\ examined = <<>> /\ round = 0 /\ discarded = FALSE
    /\ n \in (1..MaxN) \cup {NoTrimN}
    /\ pc = "while"

\* the masses of a spectrum other than its maximum
MassesBelowMax(list) == {list[i] : i \in 1..Len(list)} \ {Max(list)}

\* the target is the cyclic spectrum of a peptide over the table, as it is,
\* without its maximum, or with one occurrence of another mass missing
InitValid ==
    /\ mass_table \in ResidueTables
    /\ \E p \in Peptides(MaxPepLen) \ {<<>>} :
         LET target == cyclic_spectrum[p, mass_table] IN
         \/ /\ spectrum = target
            /\ source = [kind |-> "exact", peptide |-> p, target |-> target]
         \/ /\ Len(p) >= 2
            /\ spectrum = RemoveFirst(target, Max(target))
            /\ source = [kind |-> "nomax", peptide |-> p, target |-> target]
         \/ \E m \in MassesBelowMax(target) :
            /\ spectrum = RemoveFirst(target, m)
            /\ source = [kind |-> "missing", peptide |-> p, target |-> target]
    /\ SequencerStart

\* the target is any non-empty list of masses
InitAny ==
    /\ mass_table \in ResidueTables
    /\ spectrum \in SeqsUpTo(0..MaxSpecVal, MaxSpecLen) \ {<<>>}
    /\ source = [kind |-> "any", peptide |-> <<>>, target |-> spectrum]
    /\ SequencerStart

Init == InitValid \/ InitAny

\* while leader_board: leader_board = [...]; peptides_to_remove = []
Expand ==
    /\ pc = "while"
    /\ IF leader_board # <<>>
       THEN /\ leader_board' = Expanded(leader_board, Keys(mass_table))
            /\ peptides_to_remove' = <<>>
            /\ idx' = 0
            /\ round' = round + 1
            /\ pc' = "for"
       ELSE /\ pc' = "return"
            /\ UNCHANGED << leader_board, peptides_to_remove, idx, round >>
    /\ UNCHANGED << mass_table, spectrum, n, leader_peptide, leader_peptide_score,
                    result, peptide, cyclic, source, examined, discarded >>

\* one pass of: for peptide in leader_board
Examine ==
    /\ pc = "for"
    /\ idx < Len(leader_board)
    /\ LET after == ForBody(leader_board[idx + 1], leader_peptide,
                            leader_peptide_score, peptides_to_remove,
                            spectrum, mass_table)
       IN /\ leader_peptide' = after.leader_peptide
          /\ leader_peptide_score' = after.leader_peptide_score
          /\ peptides_to_remove' = after.peptides_to_remove
          /\ examined' = IF after.scored
                         THEN Append(examined, leader_board[idx + 1])
                         ELSE examined
    /\ idx' = idx + 1
    /\ UNCHANGED << mass_table, spectrum, n, leader_board, pc, result, peptide,
                    cyclic, source, round, discarded >>

\* the for loop is over: remove all wrong candidates from the list
Remove ==
    /\ pc = "for"
    /\ idx = Len(leader_board)
    /\ leader_board' = RemoveAll[leader_board, peptides_to_remove]
    /\ pc' = "trim"
    /\ UNCHANGED << mass_table, spectrum, n, leader_peptide, leader_peptide_score,
                    peptides_to_remove, idx, result, peptide, cyclic, source,
                    examined, round, discarded >>

\* if len(leader_board) > 0: leader_board = trim(...) else: break
TrimOrBreak ==
    /\ pc = "trim"
    /\ IF Len(leader_board) > 0
       THEN LET trimmed == trim(leader_board, spectrum, n, mass_table)
            IN IF trimmed.raised
               THEN /\ pc' = "raised"
                    /\ UNCHANGED << leader_board, discarded >>
               ELSE /\ leader_board' = trimmed.value
                    /\ discarded' = (discarded \/ Len(trimmed.value) < Len(leader_board))
                    /\ pc' = "while"
       ELSE /\ pc' = "return"
            /\ UNCHANGED << leader_board, discarded >>
    /\ UNCHANGED << mass_table, spectrum, n, leader_peptide, leader_peptide_score,
                    peptides_to_remove, idx, result, peptide, cyclic, source,
                    examined, round >>

\* return leader_peptide
Return ==
    /\ pc = "return"
    /\ result' = leader_peptide
    /\ pc' = "done"
    /\ UNCHANGED << mass_table, spectrum, n, leader_board, leader_peptide,
                    leader_peptide_score, peptides_to_remove, idx, peptide,
                    cyclic, source, examined, round, discarded >>

Next == Expand \/ Examine \/ Remove \/ TrimOrBreak \/ Return

\* runs on the spectra of peptides and on arbitrary spectra
Spec == Init /\ [][Next]_vars

\* runs on arbitrary spectra
SpecAny == InitAny /\ [][Next]_vars

\* runs on arbitrary spectra; the function runs on its own, so no step is
\* ever left waiting
FairSpec == InitAny /\ [][Next]_vars /\ WF_vars(Next)

\* sanity: the stepwise run and the whole call agree
StepsAgreeWithCall ==
    pc = "done" =>
        LET whole == leaderboard_peptide_sequencing(spectrum, n, mass_table)
        IN result = whole.leader_peptide /\ discarded = whole.discarded

(***************************************************************************)
(* Properties.                                                             *)
(***************************************************************************)
Range(list) == {list[i] : i \in 1..Len(list)}

IsSortedAscending(list) == \A i \in 1..(Len(list) - 1) : list[i] <= list[i + 1]

\* the mass of the residue at position pos (1-based) of a peptide
ResidueMass(pep, table, pos) == ParseInt(Lookup(table, pep[pos]))

\* the mass of the run of len residues that starts at position start of the
\* peptide read as a circle
RECURSIVE RunMass(_, _, _, _)
RunMass(pep, table, start, len) ==
    IF len = 0 THEN 0
    ELSE ResidueMass(pep, table, ((start - 1) % Len(pep)) + 1)
         + RunMass(pep, table, start + 1, len - 1)

\* the runs of 1..n-1 residues of the circle, one per start and length
CircularRuns(pep) == (1..Len(pep)) \X (1..(Len(pep) - 1))

\* how often mass v is due in the cyclic spectrum: as 0, as the total mass,
\* and as the mass of a circular run
DueCount(pep, table, v) ==
    (IF v = 0 THEN 1 ELSE 0)
    + (IF v = RunMass(pep, table, 1, Len(pep)) THEN 1 ELSE 0)
    + Cardinality({r \in CircularRuns(pep) : RunMass(pep, table, r[1], r[2]) = v})

\* C8: for a peptide of length n >= 1, cyclic_spectrum returns, sorted
\* ascending, exactly the multiset of 0, the total mass and the mass of every
\* circular run of 1..n-1 residues (wrap-around runs included); it has
\* n(n-1)+2 entries, and for n >= 2 both 0 and the total mass occur once.
C8_CyclicSpectrumIsCircularRuns ==
    pc = "returned" =>
        LET len == Len(peptide)
            total == RunMass(peptide, mass_table, 1, len)
            due == {0, total}
                   \cup {RunMass(peptide, mass_table, r[1], r[2]) :
                            r \in CircularRuns(peptide)}
        IN /\ IsSortedAscending(result)
           /\ Len(result) = len * (len - 1) + 2
           /\ Range(result) = due
           /\ \A v \in due : Count(result, v) = DueCount(peptide, mass_table, v)
           /\ len >= 2 => Count(result, 0) = 1 /\ Count(result, total) = 1

\* a run that wraps around the end of a peptide of three or more residues has
\* a mass that no run inside the peptide has, and the spectrum holds it
C8_Witness ==
    /\ pc = "returned"
    /\ Len(peptide) >= 3
    /\ \E r \in CircularRuns(peptide) :
         /\ r[1] + r[2] - 1 > Len(peptide)
         /\ ~Contains(linear_spectrum[peptide, mass_table],
                      RunMass(peptide, mass_table, r[1], r[2]))
         /\ Contains(result, RunMass(peptide, mass_table, r[1], r[2]))

\* the theoretical spectrum the mode asks for
Theoretical(pep, cyc, table) ==
    IF cyc THEN cyclic_spectrum[pep, table] ELSE linear_spectrum[pep, table]

Min(a, b) == IF a <= b THEN a ELSE b

RECURSIVE SumOver(_, _, _)
SumOver(S, theoretical, target) ==
    IF S = {} THEN 0
    ELSE LET v == CHOOSE x \in S : TRUE
         IN Min(Count(theoretical, v), Count(target, v))
            + SumOver(S \ {v}, theoretical, target)

\* the cardinality of the multiset intersection of two lists
BagIntersectionSize(theoretical, target) ==
    SumOver(Range(theoretical) \cup Range(target), theoretical, target)

\* C7: cyclopeptide_scoring returns the multiset-intersection cardinality of
\* the peptide's theoretical spectrum (of the mode asked for) and the target,
\* and leaves the target spectrum passed in as it was.
C7_ScoreIsBagIntersection ==
    pc = "returned" =>
        /\ result = BagIntersectionSize(Theoretical(peptide, cyclic, mass_table),
                                        source.target)
        /\ spectrum = source.target

\* a mass held twice by both spectra has been counted twice
C7_Witness ==
    /\ pc = "returned"
    /\ source.kind = "scoring"
    /\ \E v \in Range(spectrum) :
         /\ Count(spectrum, v) >= 2
         /\ Count(Theoretical(peptide, cyclic, mass_table), v) >= 2
    /\ result >= 2

LinearScore(c) == cyclopeptide_scoring(c, spectrum, FALSE, mass_table)

\* v is the score at rank k of the board's linear scores in descending
\* order: fewer than k candidates score above v, at least k score v or more
IsScoreAtRank(board, v, k) ==
    /\ \E i \in 1..Len(board) : LinearScore(board[i]) = v
    /\ Cardinality({i \in 1..Len(board) : LinearScore(board[i]) > v}) < k
    /\ Cardinality({i \in 1..Len(board) : LinearScore(board[i]) >= v}) >= k

\* C5: for a leaderboard of distinct peptides with size >= n >= 1, trim
\* returns exactly the candidates whose linear score is >= the n-th highest
\* linear score: none tying it is removed, none below it is kept, and at
\* least n candidates are returned.
C5_TrimKeepsTopNWithTies ==
    (pc = "returned" /\ n >= 1 /\ Len(leader_board) >= n) =>
        /\ ~result.raised
        /\ \E v \in {LinearScore(leader_board[i]) : i \in 1..Len(leader_board)} :
             /\ IsScoreAtRank(leader_board, v, n)
             /\ Range(result.value) =
                   {c \in Range(leader_board) : LinearScore(c) >= v}
        /\ Len(result.value) = Cardinality(Range(result.value))
        /\ Len(result.value) >= n

\* trim has kept more than n candidates because of a tie at the cutoff, and
\* has dropped a candidate below it
C5_Witness ==
    /\ pc = "returned"
    /\ source.kind = "trim"
    /\ n >= 1
    /\ ~result.raised
    /\ Len(result.value) > n
    /\ Len(result.value) < Len(leader_board)

\* C6 (as stated): for a leaderboard whose size is <= n (size n, the empty
\* leaderboard and n = 0 included) trim returns the leaderboard unchanged and
\* raises no error.
C6_TrimUnchangedUpToN ==
    (pc = "returned" /\ Len(leader_board) <= n) =>
        result = [raised |-> FALSE, value |-> leader_board]

(***************************************************************************)
(* Properties of leaderboard_peptide_sequencing.                           *)
(***************************************************************************)
CyclicScore(c) == cyclopeptide_scoring(c, spectrum, TRUE, mass_table)

Mass(c) == peptide_mass[c, mass_table]

\* examined holds, in the order of examination, exactly the candidates seen
\* so far whose mass is max(spectrum): those of the earlier rounds (shorter
\* than the round's candidates) and those of this round up to the loop's
\* position
ExaminedAreTheFullMassCandidates ==
    /\ \A i \in 1..Len(examined) : Mass(examined[i]) = Max(spectrum)
    /\ \A i, j \in 1..Len(examined) : i < j => Len(examined[i]) <= Len(examined[j])
    /\ pc = "for" =>
          SelectSeq(examined, LAMBDA c : Len(c) = round)
             = SelectSeq(SubSeq(leader_board, 1, idx),
                         LAMBDA c : Mass(c) = Max(spectrum))

\* the leader is the first of the examined candidates that attains the
\* highest cyclic score among them (no leader, score 0, while there is none)
LeaderIsFirstBest ==
    IF examined = <<>>
    THEN leader_peptide = <<>> /\ leader_peptide_score = 0
    ELSE \E i \in 1..Len(examined) :
            /\ leader_peptide = examined[i]
            /\ leader_peptide_score = CyclicScore(examined[i])
            /\ \A j \in 1..Len(examined) :
                  CyclicScore(examined[j]) <= leader_peptide_score
            /\ \A j \in 1..(i - 1) :
                  CyclicScore(examined[j]) < leader_peptide_score

\* the stored score never decreases and the leader changes only with a
\* strictly higher score
LeaderStep ==
    /\ leader_peptide_score' >= leader_peptide_score
    /\ leader_peptide' # leader_peptide =>
          leader_peptide_score' > leader_peptide_score

\* C1: after every candidate examination the leader is the first-encountered
\* candidate attaining the highest cyclic score among the candidates examined
\* so far whose mass is max(spectrum); the stored score never decreases, the
\* leader changes only on a strictly higher score, and the peptide returned
\* is the leader at termination.
C1_LeaderIsFirstBestSoFar ==
    /\ [](ExaminedAreTheFullMassCandidates /\ LeaderIsFirstBest)
    /\ [](pc = "done" => result = leader_peptide)
    /\ [][LeaderStep]_vars

\* a later candidate tied the leader's score and did not displace it
C1_Witness ==
    /\ pc = "done"
    /\ \E i, j \in 1..Len(examined) :
         /\ i < j
         /\ result = examined[i]
         /\ CyclicScore(examined[j]) = CyclicScore(examined[i])

\* C2: on target = cyclicSpectrum(P), for a non-empty peptide P over a table
\* of positive, pairwise distinct masses, a run in which trim never discards
\* a candidate returns a peptide whose cyclic score against the target is
\* the number of masses in the target.
C2_ExactSpectrumFullMatch ==
    (pc = "done" /\ source.kind = "exact" /\ ~discarded) =>
        cyclopeptide_scoring(result, source.target, TRUE, mass_table)
            = Len(source.target)

\* such a run has ended for a peptide of three residues
C2_Witness ==
    /\ pc = "done"
    /\ source.kind = "exact"
    /\ ~discarded
    /\ n = NoTrimN
    /\ Len(source.peptide) = MaxPepLen
    /\ CyclicScore(result) = Len(spectrum)

\* C3 (as stated): with the maximum mass removed from the cyclic spectrum of
\* a peptide of length >= 2 the run ends with no solution: no candidate is
\* ever made leader and the empty peptide is returned.
C3_NoMaxGivesNoSolution ==
    (pc = "done" /\ source.kind = "nomax") =>
        /\ examined = <<>>
        /\ leader_peptide_score = 0
        /\ result = <<>>

\* C3 (amended): with the maximum mass removed the run does not end with no
\* solution: candidates whose mass is the new maximum of the spectrum are
\* scored, one is made leader, and the peptide returned is non-empty, has
\* that smaller mass and so is not the peptide the spectrum came from.
C3_NoMaxGivesLighterPeptide ==
    (pc = "done" /\ source.kind = "nomax") =>
        /\ examined # <<>>
        /\ leader_peptide_score > 0
        /\ result # <<>>
        /\ Mass(result) = Max(spectrum)
        /\ Mass(result) < Mass(source.peptide)
        /\ result # source.peptide

\* such a run has ended, with trimming and without
C3_Witness ==
    /\ pc = "done"
    /\ source.kind = "nomax"
    /\ Len(source.peptide) >= 2
    /\ Max(source.target) > Max(spectrum)
    /\ result # <<>>

\* C4: with one occurrence of a mass other than the maximum removed from the
\* cyclic spectrum of a peptide, a run in which trim never discards a
\* candidate returns the peptide that such a run returns on the unmodified
\* spectrum.
C4_MissingMassSamePeptide ==
    (pc = "done" /\ source.kind = "missing" /\ ~discarded) =>
        LET whole == leaderboard_peptide_sequencing(source.target, n, mass_table)
        IN ~whole.discarded => result = whole.leader_peptide

\* such a run has ended for a peptide of three residues, the mass removed
\* being one the peptide returned has in its own spectrum
C4_Witness ==
    /\ pc = "done"
    /\ source.kind = "missing"
    /\ ~discarded
    /\ Len(source.peptide) = MaxPepLen
    /\ Len(spectrum) = Len(source.target) - 1
    /\ CyclicScore(result) = Len(spectrum)
    /\ result = leaderboard_peptide_sequencing(source.target, n, mass_table).leader_peptide

\* the candidates of this round that were scored cyclically
ScoredThisRound == SelectSeq(examined, LAMBDA c : Len(c) = round)

\* C9 (as stated): after the filter by mass only candidates lighter than
\* max(spectrum) are retained, so every candidate handed to trim and to the
\* next expansion is lighter than max(spectrum).
C9_OnlyLighterRetained ==
    ((pc = "trim") \/ (pc = "while" /\ round > 0)) =>
        \A i \in 1..Len(leader_board) : Mass(leader_board[i]) < Max(spectrum)

\* C9 (amended): after the filter by mass only candidates whose mass is at
\* most max(spectrum) are retained: a heavier candidate is discarded, and a
\* candidate whose mass is max(spectrum) is scored and stays in the
\* leaderboard handed to trim (and, when trim keeps it, to the next
\* expansion).
C9_OnlyHeavierDiscarded ==
    /\ ((pc = "trim") \/ (pc = "while")) =>
          \A i \in 1..Len(leader_board) : Mass(leader_board[i]) <= Max(spectrum)
    /\ pc = "trim" =>
          /\ \A i \in 1..Len(ScoredThisRound) :
                Contains(leader_board, ScoredThisRound[i])
          /\ \A i \in 1..Len(peptides_to_remove) :
                /\ Mass(peptides_to_remove[i]) > Max(spectrum)
                /\ ~Contains(leader_board, peptides_to_remove[i])

\* a candidate whose mass is max(spectrum) went through trim and is about to
\* be expanded again, in a round that also discarded a heavier candidate
C9_Witness ==
    /\ pc = "while"
    /\ round > 0
    /\ peptides_to_remove # <<>>
    /\ \E i \in 1..Len(leader_board) : Mass(leader_board[i]) = Max(spectrum)

\* an expansion makes each candidate from one of the leaderboard by one more
\* residue, and so heavier
ExpansionGrows ==
    (pc = "while" /\ pc' = "for") =>
        \A i \in 1..Len(leader_board') :
            LET child == leader_board'[i]
                parent == SubSeq(child, 1, Len(child) - 1)
            IN /\ Contains(leader_board, parent)
               /\ peptide_mass[child, mass_table] > peptide_mass[parent, mass_table]

\* C10: for a non-empty target spectrum, n >= 1 and positive residue masses
\* the run terminates: every candidate of round k has exactly k residues,
\* masses grow strictly with each expansion, the leaderboard becomes empty,
\* the loop exits and the leader is returned.
C10_Terminates ==
    /\ [](\A i \in 1..Len(leader_board) : Len(leader_board[i]) = round)
    /\ [][ExpansionGrows]_vars
    /\ [](pc = "done" => leader_board = <<>> /\ result = leader_peptide)
    /\ <>(pc = "done")

\* a run of several rounds has ended with the smallest retention count
C10_Witness ==
    /\ pc = "done"
    /\ n = 1
    /\ round >= 3
    /\ leader_board = <<>>

====
